---- MODULE Spec2Model ----
(***************************************************************************)
(* A model of src/app.py: the collection parsers (extract_variables,       *)
(* parse_postman, parse_openapi), the concurrent load test (load_test and  *)
(* its worker make_request) and the aggregation in plot_results.           *)
(*                                                                         *)
(* Python values of mixed type that share a list or a tuple (a status code *)
(* or the string "ERROR", a latency or None) are tagged tuples: PyInt(n),  *)
(* PyStr(s), PyNone.  Text that the code scans or joins character by       *)
(* character (URLs, paths, names, group labels) is a sequence of           *)
(* one-character strings.                                                  *)
(***************************************************************************)
EXTENDS Integers, Sequences, FiniteSets, TLC

VARIABLES
    \* ---- load_test --------------------------------------------------------
    pc,            \* the calling thread: "idle", "submit", "collect", "returned", "raised"
    api_urls,      \* argument: the target list
    num_requests,  \* argument: the requested volume
    max_workers,   \* argument: the pool size
    work,          \* api_urls * (num_requests // len(api_urls)), the iterable of line 104
    futures,       \* the futures submitted so far, in submission order
    yielded,       \* the futures as_completed has yielded so far
    results,       \* load_test's local list results
    latencies,     \* load_test's local list latencies (appended by the workers)
    statuses,      \* load_test's local list statuses (appended by the workers)
    completed,     \* load_test's local counter completed (0 before line 105 sets it)
    progress,      \* the last value handed to progress_bar.progress
    raised,        \* the exception load_test or plot_results raised, "none" if none
    plot,          \* plot_results: "none", "done"
    success_rate,  \* plot_results' local success_rate (percent, truncated)
    \* ---- parsers ----------------------------------------------------------
    data,          \* the uploaded JSON document
    parse,         \* "none", "postman", "openapi", "unsupported"
    parse_exc,     \* the exception the parser raised, "none" if none
    folder_api_map,\* the returned catalog: a sequence of <<group, endpoints>>
    total,         \* the returned total
    all_variables  \* the returned union of the variables

loadVars == <<pc, api_urls, num_requests, max_workers, work, futures, yielded,
              results, latencies, statuses, completed, progress,
              raised, plot, success_rate>>
parseVars == <<data, parse, parse_exc, folder_api_map, total, all_variables>>
vars == <<loadVars, parseVars>>

-----------------------------------------------------------------------------
(* Bounds of the model. *)
MaxTargets == 2
MaxRequests == 3
MaxWorkers == 2

(* Python values. *)
PyInt(n) == <<"int", n>>
PyStr(s) == <<"str", s>>
PyNone == <<"None">>

RECURSIVE Count(_, _)
(* list.count(x) *)
Count(s, x) ==
    IF s = <<>> THEN 0
    ELSE (IF Head(s) = x THEN 1 ELSE 0) + Count(Tail(s), x)

RECURSIVE Repeat(_, _)
(* list * k: k copies of the list, one after the other; empty when k <= 0 *)
Repeat(s, k) == IF k <= 0 THEN <<>> ELSE s \o Repeat(s, k - 1)

Range(s) == {s[i] : i \in DOMAIN s}

-----------------------------------------------------------------------------
(* The load test. *)

(* The targets: two URLs that requests can fetch and one it cannot; the    *)
(* status codes, latencies (ms) and exceptions a fetch is seen to end with.*)
HttpUrls == {"http://a", "https://b"}
OtherUrls == {"ftp://c"}
Urls == HttpUrls \cup OtherUrls
StatusCodes == {200}
Latencies == {7}
NetworkErrors == {"ConnectionError"}

(* What requests.get(url) can do: raise, or return a response after some  *)
(* time.  A URL whose scheme is not http or https has no connection       *)
(* adapter: requests raises InvalidSchema without sending anything.       *)
GetOutcomes(url) ==
    IF url \in HttpUrls
    THEN [exc : {"none"}, status : StatusCodes, latency : Latencies]
         \cup [exc : NetworkErrors, status : {0}, latency : {0}]
    ELSE [exc : {"InvalidSchema"}, status : {0}, latency : {0}]

TargetLists ==
    UNION {[1..n -> Urls] : n \in 0..MaxTargets}

(* EvalWork with the quotient rounded up. *)
EvalWorkCeil(urls, n) ==
    IF Len(urls) = 0
    THEN [exc |-> "ZeroDivisionError", work |-> <<>>]
    ELSE [exc |-> "none",
          work |-> Repeat(urls, (n + Len(urls) - 1) \div Len(urls))]
(* EvalWork with the empty list treated as no work. *)
EvalWorkGuarded(urls, n) ==
    IF Len(urls) = 0
    THEN [exc |-> "none", work |-> <<>>]
    ELSE [exc |-> "none", work |-> Repeat(urls, n \div Len(urls))]
(* Line 104's iterable, api_urls * (num_requests // len(api_urls)): the    *)
(* floor division raises ZeroDivisionError when api_urls is empty.         *)
EvalWork(urls, n) ==
    IF Len(urls) = 0
    THEN [exc |-> "ZeroDivisionError", work |-> <<>>]
    ELSE [exc |-> "none", work |-> Repeat(urls, n \div Len(urls))]

(* ErrorResult with a status code in place of "ERROR". *)
ErrorResultAsStatus(url, e) == <<url, PyInt(500), PyStr(e)>>
(* make_request's return values, lines 97 and 101 *)
ErrorResult(url, e) == <<url, PyStr("ERROR"), PyStr(e)>>
OkResult(url, status, latency) == <<url, PyInt(status), PyInt(latency)>>

InFlight == {i \in DOMAIN futures : futures[i].st \in {"running", "lat"}}
Queued == {i \in DOMAIN futures : futures[i].st = "queued"}
Done == {i \in DOMAIN futures : futures[i].st = "done"}

LoadInit ==
    /\ pc = "idle"
    /\ api_urls = <<>>
    /\ num_requests = 0
    /\ max_workers = 0
    /\ work = <<>>
    /\ futures = <<>>
    /\ yielded = {}
    /\ results = <<>>
    /\ latencies = <<>>
    /\ statuses = <<>>
    /\ completed = 0
    /\ progress = 0
    /\ raised = "none"
    /\ plot = "none"
    /\ success_rate = 0

(* load_test(api_urls, num_requests, max_workers) up to the evaluation of  *)
(* the iterable of line 104: the lists are created, the progress bar set   *)
(* to 0, the executor entered.  With an empty api_urls the division raises *)
(* ZeroDivisionError; the with block shuts the (idle) executor down and    *)
(* the exception leaves load_test.                                         *)
Call ==
    /\ pc = "idle"
    /\ \E urls \in TargetLists, n \in 0..MaxRequests, w \in 1..MaxWorkers :
        /\ api_urls' = urls
        /\ num_requests' = n
        /\ max_workers' = w
        /\ raised' = EvalWork(urls, n).exc
        /\ work' = EvalWork(urls, n).work
        /\ pc' = IF EvalWork(urls, n).exc = "none" THEN "submit" ELSE "raised"
    /\ progress' = 0
    /\ UNCHANGED <<futures, yielded, results, latencies, statuses,
                   completed, plot, success_rate>>

(* One round of line 104's comprehension: executor.submit(make_request, url) *)
Submit ==
    /\ pc = "submit"
    /\ Len(futures) < Len(work)
    /\ futures' = Append(futures,
            [url |-> work[Len(futures) + 1], st |-> "queued",
             out |-> [exc |-> "none", status |-> 0, latency |-> 0],
             result |-> PyNone])
    /\ UNCHANGED <<pc, api_urls, num_requests, max_workers, work, yielded, results,
                   latencies, statuses, completed, progress, raised,
                   plot, success_rate>>

(* Lines 105-106, once the comprehension is exhausted. *)
StartCollect ==
    /\ pc = "submit"
    /\ Len(futures) = Len(work)
    /\ pc' = "collect"
    /\ completed' = 0
    /\ UNCHANGED <<api_urls, num_requests, max_workers, work, futures, yielded,
                   results, latencies, statuses, progress, raised,
                   plot, success_rate>>

(* A pool thread takes the oldest queued work item (the executor's queue   *)
(* is FIFO, and at most max_workers threads exist) and enters make_request:*)
(* lines 91-93, up to the blocking requests.get.                           *)
Start(i) ==
    /\ i \in Queued
    /\ \A j \in Queued : i <= j
    /\ Cardinality(InFlight) < max_workers
    /\ futures' = [futures EXCEPT ![i].st = "running"]
    /\ UNCHANGED <<pc, api_urls, num_requests, max_workers, work, yielded, results,
                   latencies, statuses, completed, progress, raised,
                   plot, success_rate>>

(* requests.get returns or raises, and the worker appends to latencies:    *)
(* lines 93-95, or 93 and 98-99.                                           *)
GetDone(i) ==
    /\ i \in DOMAIN futures
    /\ futures[i].st = "running"
    /\ \E o \in GetOutcomes(futures[i].url) :
        /\ futures' = [futures EXCEPT ![i].st = "lat", ![i].out = o]
        /\ latencies' = Append(latencies,
                               IF o.exc = "none" THEN PyInt(o.latency) ELSE PyNone)
    /\ UNCHANGED <<pc, api_urls, num_requests, max_workers, work, yielded, results,
                   statuses, completed, progress, raised, plot, success_rate>>

(* Lines 96-97, or lines 100-101: the worker appends to statuses and       *)
(* make_request returns; the future gets its result and the thread is free *)
(* again.  Nothing shared is touched between the append and the return.    *)
Finish(i) ==
    /\ i \in DOMAIN futures
    /\ futures[i].st = "lat"
    /\ statuses' = Append(statuses,
                          IF futures[i].out.exc = "none"
                          THEN PyInt(futures[i].out.status) ELSE PyStr("ERROR"))
    /\ futures' = [futures EXCEPT
            ![i].st = "done",
            ![i].result =
                IF futures[i].out.exc = "none"
                THEN OkResult(futures[i].url, futures[i].out.status,
                              futures[i].out.latency)
                ELSE ErrorResult(futures[i].url, futures[i].out.exc)]
    /\ UNCHANGED <<pc, api_urls, num_requests, max_workers, work, yielded, results,
                   latencies, completed, progress, raised, plot, success_rate>>

(* IncCompleted counting a request twice. *)
IncCompletedTwice(c) == c + 2
(* line 109 *)
IncCompleted(c) == c + 1

(* One round of the loop of lines 107-110: as_completed yields a finished  *)
(* future that it has not yielded yet.                                     *)
Collect(i) ==
    /\ pc = "collect"
    /\ i \in Done
    /\ i \notin yielded
    /\ yielded' = yielded \cup {i}
    /\ results' = Append(results, futures[i].result)
    /\ completed' = IncCompleted(completed)
    /\ progress' = (completed' * 100) \div Len(futures)
    /\ UNCHANGED <<pc, api_urls, num_requests, max_workers, work, futures,
                   latencies, statuses, raised, plot, success_rate>>

(* CanReturn without the wait for the futures. *)
ReturnsWithoutWaiting == pc = "collect"
(* The loop of line 107 ends when as_completed has yielded every future;   *)
(* leaving the with block of line 103 is executor.shutdown(wait=True),     *)
(* which joins the pool's threads.                                         *)
CanReturn ==
    /\ pc = "collect"
    /\ yielded = DOMAIN futures
    /\ InFlight = {}
    /\ Queued = {}

(* Line 112. *)
Return ==
    /\ CanReturn
    /\ pc' = "returned"
    /\ UNCHANGED <<api_urls, num_requests, max_workers, work, futures, yielded,
                   results, latencies, statuses, completed, progress,
                   raised, plot, success_rate>>

(* plot_results(latencies, statuses), lines 126-129, on what load_test    *)
(* returned.  success_count / len(statuses) raises ZeroDivisionError on    *)
(* an empty statuses.                                                      *)
PlotResults ==
    /\ pc = "returned"
    /\ plot = "none"
    /\ raised = "none"
    /\ IF Len(statuses) = 0
       THEN /\ raised' = "ZeroDivisionError"
            /\ UNCHANGED <<plot, success_rate>>
       ELSE /\ success_rate' = (Count(statuses, PyInt(200)) * 100) \div Len(statuses)
            /\ plot' = "done"
            /\ UNCHANGED raised
    /\ UNCHANGED <<pc, api_urls, num_requests, max_workers, work, futures, yielded,
                   results, latencies, statuses, completed, progress>>

-----------------------------------------------------------------------------
(* The parsers. *)

MaxNodes == 3
MaxOps == 2

(* A JSON object is a function from its keys; the keys it lacks are not in *)
(* its domain.  JSON null is PyNone; a JSON array is a sequence.           *)
EmptyDict == [k \in {} |-> 0]

(* dict.get(k, default) *)
Get(d, k, default) == IF k \in DOMAIN d THEN d[k] ELSE default

(* The characters of the texts of the model, in code point order; "-"     *)
(* stands for the dash of line 68, which is beyond ASCII.                  *)
CodePoints ==
    <<"\n", " ", "\"", "/",
      "A", "B", "D", "E", "F", "G", "M", "N", "O", "P", "R", "S", "T", "U", "X",
      "a", "b", "d", "e", "g", "m", "n", "o", "p", "r", "s", "t", "x",
      "{", "}", "-">>
LowerCase == <<"a", "b", "d", "e", "g", "m", "n", "o", "p", "r", "s", "t", "x">>
UpperCase == <<"A", "B", "D", "E", "G", "M", "N", "O", "P", "R", "S", "T", "X">>

Ord(c) == CHOOSE i \in DOMAIN CodePoints : CodePoints[i] = c

(* isinstance(text, str) *)
IsStr(v) == \A k \in DOMAIN v : v[k] \in Range(CodePoints)

(* str.upper() *)
Upper(t) ==
    [k \in DOMAIN t |->
        IF \E i \in DOMAIN LowerCase : LowerCase[i] = t[k]
        THEN UpperCase[CHOOSE i \in DOMAIN LowerCase : LowerCase[i] = t[k]]
        ELSE t[k]]

(* s < t for str: lexicographic by code point *)
RECURSIVE StrLess(_, _)
StrLess(s, t) ==
    IF t = <<>> THEN FALSE
    ELSE IF s = <<>> THEN TRUE
    ELSE IF Head(s) # Head(t) THEN Ord(Head(s)) < Ord(Head(t))
    ELSE StrLess(Tail(s), Tail(t))

(* sorted(list(S)) for a set of str *)
RECURSIVE Sorted(_)
Sorted(S) ==
    IF S = {} THEN <<>>
    ELSE LET m == CHOOSE x \in S : \A y \in S \ {x} : StrLess(x, y)
         IN <<m>> \o Sorted(S \ {m})

SetMin(S) == CHOOSE x \in S : \A y \in S : x <= y

(* Where a match of {{(.*?)}} that starts at s can end: the positions of   *)
(* a }} at or after s + 2 with no newline before it ('.' matches no        *)
(* newline).                                                               *)
MatchEnds(t, s) ==
    {e \in (s + 2)..(Len(t) - 1) :
        /\ t[e] = "}"
        /\ t[e + 1] = "}"
        /\ \A k \in (s + 2)..(e - 1) : t[k] # "\n"}

MatchStarts(t, from) ==
    {s \in from..(Len(t) - 1) :
        /\ t[s] = "{"
        /\ t[s + 1] = "{"
        /\ MatchEnds(t, s) # {}}

(* re.findall(r"{{(.*?)}}", text) from position `from` on: the leftmost    *)
(* match, its group the shortest possible, then the rest after the match.  *)
RECURSIVE FindAll(_, _)
FindAll(t, from) ==
    IF MatchStarts(t, from) = {} THEN <<>>
    ELSE LET s == SetMin(MatchStarts(t, from))
             e == SetMin(MatchEnds(t, s))
         IN <<SubSeq(t, s + 2, e - 1)>> \o FindAll(t, e + 2)

(* line 21 *)
extract_variables(text) == IF IsStr(text) THEN FindAll(text, 1) ELSE <<>>

Unnamed == <<"U", "n", "n", "a", "m", "e", "d">>
Untagged == <<"U", "n", "t", "a", "g", "g", "e", "d">>

(* folder_api_map[key].append(api_info) on a defaultdict(list): a new key  *)
(* goes last, the dict keeping insertion order.                            *)
MapAppend(m, key, api_info) ==
    IF \E i \in DOMAIN m : m[i][1] = key
    THEN [i \in DOMAIN m |->
            IF m[i][1] = key THEN <<key, Append(m[i][2], api_info)>> ELSE m[i]]
    ELSE Append(m, <<key, <<api_info>>>>)

(* The for loop of lines 39-40 over the request's header list. *)
RECURSIVE HeaderVariables(_)
HeaderVariables(hs) ==
    IF hs = <<>> THEN {}
    ELSE Range(extract_variables(Get(Head(hs), "value", <<>>)))
         \cup HeaderVariables(Tail(hs))

(* Lines 33-46: the api_info of a request leaf. *)
LeafInfo(item) ==
    LET request == item["request"]
        url == Get(Get(request, "url", EmptyDict), "raw", <<>>)
        body == Get(request, "body", EmptyDict)
        variables ==
            Range(extract_variables(url))
            \cup HeaderVariables(Get(request, "header", <<>>))
            \cup (IF "raw" \in DOMAIN body
                  THEN Range(extract_variables(body["raw"])) ELSE {})
        base == [name |-> Get(item, "name", Unnamed),
                 path |-> url,
                 variables |-> Sorted(variables)]
    IN IF "raw" \in DOMAIN body THEN base @@ [body |-> body["raw"]] ELSE base

(* line 51 *)
SubPath(path, name) == IF path # <<>> THEN path \o <<"/">> \o name ELSE name

(* traverse(items, path), lines 28-52.  acc is what the closure has built  *)
(* so far: folder_api_map, total, all_variables, and the exception that    *)
(* ended the walk ("none" while it runs).  item['name'] on a folder with   *)
(* no name raises KeyError.                                                *)
RECURSIVE traverse(_, _, _)
traverse(items, path, acc) ==
    IF items = <<>> \/ acc.exc # "none" THEN acc
    ELSE LET item == Head(items)
             after ==
                IF "request" \in DOMAIN item
                THEN [acc EXCEPT
                        !.map = MapAppend(@, path, LeafInfo(item)),
                        !.total = @ + 1,
                        !.all_variables = @ \cup Range(LeafInfo(item).variables)]
                ELSE IF "item" \in DOMAIN item
                THEN IF "name" \in DOMAIN item
                     THEN traverse(item["item"], SubPath(path, item["name"]), acc)
                     ELSE [acc EXCEPT !.exc = "KeyError"]
                ELSE acc
         IN traverse(Tail(items), path, after)

EmptyCatalog == [map |-> <<>>, total |-> 0, all_variables |-> {}, exc |-> "none"]

(* lines 23-55 *)
parse_postman(d) == traverse(Get(d, "item", <<>>), <<>>, EmptyCatalog)

(* json.dumps(example, indent=2) of a JSON string of plain characters *)
Dumps(example) == <<"\"">> \o example \o <<"\"">>

(* `if example:` for None or a str *)
Truthy(example) == example # PyNone /\ example # <<>>

(* Lines 65-79: the api_info of one operation. *)
OperationInfo(endpoint, method, details) ==
    LET summary == Get(details, "summary", Upper(method) \o <<" ">> \o endpoint)
        base == [name |-> Upper(method) \o <<" ">> \o endpoint
                          \o <<" ", "-", " ">> \o summary,
                 path |-> endpoint,
                 variables |-> extract_variables(endpoint)]
        content == Get(Get(details, "requestBody", EmptyDict), "content", EmptyDict)
        example == IF "application/json" \in DOMAIN content
                   THEN Get(content["application/json"], "example", PyNone)
                   ELSE PyNone
    IN IF Truthy(example) THEN base @@ [body |-> Dumps(example)] ELSE base

(* The inner loop of lines 64-80 over one path's methods.  [0] on an       *)
(* empty tags list raises IndexError.                                      *)
RECURSIVE Methods(_, _, _)
Methods(endpoint, methods, acc) ==
    IF methods = <<>> \/ acc.exc # "none" THEN acc
    ELSE LET method == Head(methods)[1]
             details == Head(methods)[2]
             tags == Get(details, "tags", <<Untagged>>)
             info == OperationInfo(endpoint, method, details)
             after ==
                IF tags = <<>>
                THEN [acc EXCEPT !.exc = "IndexError"]
                ELSE [acc EXCEPT
                        !.all_variables = @ \cup Range(info.variables),
                        !.map = MapAppend(@, tags[1], info),
                        !.total = @ + 1]
         IN Methods(endpoint, Tail(methods), after)

(* The outer loop of lines 63-80 over data["paths"], a dict in document    *)
(* order: a sequence of <<path, methods>>, methods a sequence of           *)
(* <<method, details>>.                                                    *)
RECURSIVE Paths(_, _)
Paths(paths, acc) ==
    IF paths = <<>> \/ acc.exc # "none" THEN acc
    ELSE Paths(Tail(paths), Methods(Head(paths)[1], Head(paths)[2], acc))

(* lines 57-82 *)
parse_openapi(d) == Paths(Get(d, "paths", <<>>), EmptyCatalog)

-----------------------------------------------------------------------------
(* The documents the parsers are run on. *)

Ph(n) == <<"{", "{">> \o n \o <<"}", "}">>

UrlTexts ==
    { Ph(<<"b">>) \o <<"/">> \o Ph(<<"a">>),
      Ph(<<"a">>) \o Ph(<<"a">>) }

BodyTexts ==
    { Ph(<<"x">>),
      <<"{", "{", "a", "\n", "}", "}">> \o Ph(<<"b">>) }

HeaderLists ==
    { << [key |-> <<"t">>, value |-> Ph(<<"a">>) \o Ph(<<"d">>)],
         [key |-> <<"t">>],
         [key |-> <<"t">>, value |-> PyNone] >> }

PathTexts ==
    { <<"/">>,
      <<"/", "{", "a", "}">>,
      Ph(<<"b">>) \o <<"/">> \o Ph(<<"a">>),
      <<"/">> \o Ph(<<"a">>) \o <<"/">> \o Ph(<<"a">>) }

(* The dicts with some of the given keys, each key with one of its values. *)
Optional(key, values) ==
    {EmptyDict} \cup {(key :> v) : v \in values}

Requests ==
    { u @@ h @@ b :
        u \in Optional("url", {EmptyDict} \cup {[raw |-> t] : t \in UrlTexts}),
        h \in Optional("header", HeaderLists),
        b \in Optional("body", {EmptyDict} \cup {[raw |-> t] : t \in BodyTexts}) }

AllLeaves ==
    { n @@ [request |-> r] : n \in Optional("name", {<<"r">>}), r \in Requests }

StructLeaves ==
    { [name |-> <<"r">>,
       request |-> [url |-> [raw |-> Ph(<<"b">>) \o <<"/">> \o Ph(<<"a">>)]]],
      [request |-> EmptyDict] }

FolderNames == {<<>>, <<"F">>, <<"G">>}

(* The item lists with exactly n items in all, folders and leaves, at any  *)
(* depth; a folder has a name or none.                                     *)
RECURSIVE Forests(_)
Forests(n) ==
    IF n = 0 THEN {<<>>}
    ELSE UNION {
            { <<t>> \o f :
                t \in (IF k = 1 THEN StructLeaves ELSE {})
                      \cup { nm @@ [item |-> c] :
                                nm \in Optional("name", FolderNames),
                                c \in Forests(k - 1) },
                f \in Forests(n - k) }
            : k \in 1..n }

PostmanDocs ==
    {[item |-> f] : f \in UNION {Forests(n) : n \in 0..MaxNodes}}
    \cup {[item |-> <<l>>] : l \in AllLeaves}

Details ==
    { EmptyDict,
      [tags |-> <<>>],
      [tags |-> <<<<"T">>, <<"S">>>>, summary |-> <<"s">>],
      [tags |-> <<<<"T">>>>,
       requestBody |-> [content |-> ("application/json" :> [example |-> <<"x">>])]],
      [requestBody |-> EmptyDict],
      [requestBody |-> [content |-> ("application/json" :> EmptyDict)]],
      [summary |-> <<"s">>,
       requestBody |-> [content |-> ("application/json" :> [example |-> <<>>])]] }

MethodMaps ==
    LET ops == {<<m, d>> : m \in {<<"g", "e", "t">>, <<"p", "o", "s", "t">>},
                           d \in Details}
    IN {<<>>} \cup {<<o>> : o \in ops}
       \cup {p \in ops \X ops : p[1][1] # p[2][1]}

RECURSIVE OpCount(_)
OpCount(paths) ==
    IF paths = <<>> THEN 0 ELSE Len(Head(paths)[2]) + OpCount(Tail(paths))

PathMaps ==
    LET entries == {<<e, mm>> : e \in PathTexts, mm \in MethodMaps}
    IN {ps \in {<<>>} \cup {<<x>> : x \in entries}
               \cup {p \in entries \X entries : p[1][1] # p[2][1]} :
            OpCount(ps) <= MaxOps}

OpenapiDocs == {[paths |-> ps] : ps \in PathMaps}

OtherDocs == {EmptyDict, [info |-> <<"x">>]}

Documents == PostmanDocs \cup OpenapiDocs \cup OtherDocs

ParseInit ==
    /\ data \in Documents
    /\ parse = "none"
    /\ parse_exc = "none"
    /\ folder_api_map = <<>>
    /\ total = 0
    /\ all_variables = {}

(* What lines 147-155 leave in folder_api_map, total, all_variables: the   *)
(* parser's return values, or the initial ones when the parser raised and  *)
(* the handler of line 247 took over.                                      *)
Returned(r) ==
    /\ parse_exc' = r.exc
    /\ folder_api_map' = IF r.exc = "none" THEN r.map ELSE <<>>
    /\ total' = IF r.exc = "none" THEN r.total ELSE 0
    /\ all_variables' = IF r.exc = "none" THEN r.all_variables ELSE {}

(* lines 151-153 *)
UploadPostman ==
    /\ parse = "none"
    /\ "item" \in DOMAIN data
    /\ parse' = "postman"
    /\ Returned(parse_postman(data))
    /\ UNCHANGED data

(* lines 154-156 *)
UploadOpenapi ==
    /\ parse = "none"
    /\ "item" \notin DOMAIN data
    /\ "paths" \in DOMAIN data
    /\ parse' = "openapi"
    /\ Returned(parse_openapi(data))
    /\ UNCHANGED data

(* lines 157-158 *)
UploadUnsupported ==
    /\ parse = "none"
    /\ "item" \notin DOMAIN data
    /\ "paths" \notin DOMAIN data
    /\ parse' = "unsupported"
    /\ UNCHANGED <<data, parse_exc, folder_api_map, total, all_variables>>

ParseNext ==
    \/ UploadPostman /\ UNCHANGED loadVars
    \/ UploadOpenapi /\ UNCHANGED loadVars
    \/ UploadUnsupported /\ UNCHANGED loadVars

ParseSpecInit == LoadInit /\ ParseInit

ParseSpec == ParseSpecInit /\ [][ParseNext]_vars

(* No document has been uploaded. *)
ParseIdle ==
    /\ data = <<>>
    /\ parse = "none"
    /\ parse_exc = "none"
    /\ folder_api_map = <<>>
    /\ total = 0
    /\ all_variables = {}

Init == LoadInit /\ ParseIdle

Next ==
    \/ Call /\ UNCHANGED parseVars
    \/ Submit /\ UNCHANGED parseVars
    \/ StartCollect /\ UNCHANGED parseVars
    \/ \E i \in DOMAIN futures : Start(i) /\ UNCHANGED parseVars
    \/ \E i \in DOMAIN futures : GetDone(i) /\ UNCHANGED parseVars
    \/ \E i \in DOMAIN futures : Finish(i) /\ UNCHANGED parseVars
    \/ \E i \in DOMAIN futures : Collect(i) /\ UNCHANGED parseVars
    \/ Return /\ UNCHANGED parseVars
    \/ PlotResults /\ UNCHANGED parseVars

Spec == Init /\ [][Next]_vars

(* The threads are scheduled fairly and every request finishes: a step     *)
(* that can be taken is eventually taken.                                  *)
FairSpec == Spec /\ WF_vars(Next)

-----------------------------------------------------------------------------
(* Properties of the load test. *)

Called == pc # "idle"

(* len(targets) * floor(R / len(targets)), for a non-empty target list *)
EffectiveCount ==
    IF Len(api_urls) = 0 THEN 0
    ELSE Len(api_urls) * (num_requests \div Len(api_urls))

RECURSIVE CountUrl(_, _)
CountUrl(rs, u) ==
    IF rs = <<>> THEN 0
    ELSE (IF Head(rs)[1] = u THEN 1 ELSE 0) + CountUrl(Tail(rs), u)

Failed(i) == futures[i].out.exc # "none"

(* C1: when load_test returns, results has exactly n * floor(R / n)        *)
(* records and every target is recorded floor(R / n) times: a URL that     *)
(* stands k times in the target list appears in k * floor(R / n) records,  *)
(* which is floor(R / n) for a list of distinct URLs.                      *)
C1_ExactRecords ==
    pc = "returned" =>
        /\ Len(results) = Len(api_urls) * (num_requests \div Len(api_urls))
        /\ \A u \in Urls :
            CountUrl(results, u) =
                Count(api_urls, u) * (num_requests \div Len(api_urls))

C1_Witness ==
    /\ pc = "returned"
    /\ api_urls = <<"http://a", "https://b">>
    /\ num_requests = 3
    /\ max_workers = 2
    /\ Len(results) = 2

(* C2: load_test has returned only if every dispatched request has         *)
(* completed (none is queued or in flight, and all of the work list was    *)
(* dispatched), and once the call has got past line 104 it eventually      *)
(* returns.                                                                *)
C2_RunToCompletion ==
    /\ [](pc = "returned" =>
            /\ Len(futures) = EffectiveCount
            /\ \A i \in DOMAIN futures : futures[i].st = "done")
    /\ (pc = "submit" ~> pc = "returned")

C2_Witness ==
    /\ pc = "returned"
    /\ max_workers = 2
    /\ Len(futures) = 3

(* C3: a request that raises never makes load_test raise; its future's     *)
(* result is (url, "ERROR", description), the third place holding the      *)
(* description and not a latency, and None is what it appended to          *)
(* latencies; when load_test returns every dispatched request, failed or   *)
(* not, has its result in results.                                         *)
C3_FailuresAreData ==
    /\ (Called /\ api_urls # <<>>) => (pc # "raised" /\ raised # "ConnectionError")
    /\ \A i \in Done :
        Failed(i) =>
            futures[i].result =
                <<futures[i].url, PyStr("ERROR"), PyStr(futures[i].out.exc)>>
    /\ pc = "returned" =>
        /\ Len(futures) = EffectiveCount
        /\ \A i \in DOMAIN futures :
            Count(results, futures[i].result) =
                Cardinality({j \in DOMAIN futures :
                                futures[j].result = futures[i].result})
        /\ Count(latencies, PyNone) =
                Cardinality({i \in DOMAIN futures : Failed(i)})

C3_Witness ==
    /\ pc = "returned"
    /\ \E i, j \in DOMAIN futures :
        /\ Failed(i)
        /\ ~Failed(j)
        /\ futures[i].url \in HttpUrls

(* C4, as stated: a call with an empty target list, or with a target that  *)
(* does not begin with http, fails: it dispatches no request and does not  *)
(* return normally.                                                        *)
C4_FatalBeforeDispatch ==
    (Called /\ (api_urls = <<>> \/ \E k \in DOMAIN api_urls : api_urls[k] \notin HttpUrls))
        => (futures = <<>> /\ pc # "returned")

(* C4, amended: a call with an empty target list raises before anything is *)
(* dispatched or recorded; a call with a non-empty list never raises, and  *)
(* a target that does not begin with http is dispatched like the others    *)
(* and its failure recorded as an ERROR result.                            *)
C4_EmptyListIsFatal ==
    /\ (Called /\ api_urls = <<>>) =>
        /\ pc = "raised"
        /\ raised = "ZeroDivisionError"
        /\ futures = <<>>
        /\ results = <<>>
        /\ latencies = <<>>
        /\ statuses = <<>>
    /\ (Called /\ api_urls # <<>>) => pc # "raised"
    /\ \A i \in Done :
        futures[i].url \notin HttpUrls =>
            futures[i].result = <<futures[i].url, PyStr("ERROR"), PyStr("InvalidSchema")>>

C4_Witness ==
    /\ pc = "raised"
    /\ raised = "ZeroDivisionError"
    /\ api_urls = <<>>
    /\ futures = <<>>

(* C5: summarizing what load_test returned never divides by zero, and an   *)
(* empty result set gets success_rate 0.                                   *)
C5_NoDivisionByZero ==
    pc = "returned" =>
        /\ raised # "ZeroDivisionError"
        /\ (plot = "done" /\ statuses = <<>>) => success_rate = 0

(* C6: completed starts at 0, changes only by one step up, exactly when    *)
(* as_completed hands over one more finished request, never exceeds the    *)
(* effective dispatch count and equals it when load_test returns.          *)
C6_CompletedCount ==
    /\ completed = 0
    /\ [][/\ completed' # completed => completed' = completed + 1
          /\ (completed' # completed) <=> (yielded' # yielded)
          /\ yielded' # yielded =>
                \E i \in Done : i \notin yielded /\ yielded' = yielded \cup {i}]_vars
    /\ [](completed <= EffectiveCount)
    /\ [](pc = "returned" => completed = EffectiveCount)

C6_Witness ==
    /\ pc = "returned"
    /\ completed = 3
    /\ max_workers = 2

(* C10: when load_test returns, latencies and statuses have the length of  *)
(* the effective dispatch count and position by position hold what one     *)
(* request recorded: statuses[i] is "ERROR" exactly when latencies[i] is   *)
(* None.                                                                   *)
C10_PairedByIndex ==
    pc = "returned" =>
        /\ Len(latencies) = EffectiveCount
        /\ Len(statuses) = EffectiveCount
        /\ \A i \in 1..EffectiveCount :
            (statuses[i] = PyStr("ERROR")) <=> (latencies[i] = PyNone)
-----------------------------------------------------------------------------
(* Properties of the parsers. *)

Parsed == parse \in {"postman", "openapi"}

(* The endpoints of the catalog, group after group. *)
RECURSIVE Endpoints(_)
Endpoints(m) == IF m = <<>> THEN <<>> ELSE Head(m)[2] \o Endpoints(Tail(m))

(* The request leaves of an item list in traversal order, each with the    *)
(* names of the folders above it, outermost first; a folder without a name *)
(* counts as "Unnamed", the name an item without one gets.                 *)
RECURSIVE Leaves(_, _)
Leaves(items, ancestors) ==
    IF items = <<>> THEN <<>>
    ELSE LET item == Head(items)
             here ==
                IF "request" \in DOMAIN item
                THEN << [ancestors |-> ancestors,
                         name |-> Get(item, "name", Unnamed),
                         path |-> Get(Get(item["request"], "url", EmptyDict),
                                      "raw", <<>>)] >>
                ELSE IF "item" \in DOMAIN item
                THEN Leaves(item["item"],
                            Append(ancestors, Get(item, "name", Unnamed)))
                ELSE <<>>
         IN here \o Leaves(Tail(items), ancestors)

(* '/'.join(names) *)
RECURSIVE JoinSlash(_)
JoinSlash(names) ==
    IF names = <<>> THEN <<>>
    ELSE IF Len(names) = 1 THEN names[1]
    ELSE names[1] \o <<"/">> \o JoinSlash(Tail(names))

(* The number of endpoints the document describes. *)
EndpointCount ==
    IF parse = "postman" THEN Len(Leaves(data["item"], <<>>))
    ELSE OpCount(data["paths"])

NamePath(s) == [k \in DOMAIN s |-> <<s[k].name, s[k].path>>]

(* C7: in a document of a recognized shape whose only defects are missing  *)
(* fields, the parse does not abort, and every endpoint of the document is *)
(* in the returned catalog.                                                *)
C7_MissingFieldsNeverAbort ==
    Parsed =>
        /\ parse_exc = "none"
        /\ total = EndpointCount
        /\ Len(Endpoints(folder_api_map)) = EndpointCount

(* C8: the variables of every endpoint of a returned catalog hold no name  *)
(* twice, are sorted, and are the placeholder names of the endpoint's      *)
(* path: all of them for a flat operation, at least those for a            *)
(* hierarchical leaf, whose headers and body add theirs.                   *)
C8_VariablesSortedDistinct ==
    (Parsed /\ parse_exc = "none") =>
        \A k \in DOMAIN Endpoints(folder_api_map) :
            LET e == Endpoints(folder_api_map)[k]
                v == e.variables
            IN /\ \A i, j \in DOMAIN v : i # j => v[i] # v[j]
               /\ \A i \in DOMAIN v : i + 1 \in DOMAIN v => StrLess(v[i], v[i + 1])
               /\ Range(FindAll(e.path, 1)) \subseteq Range(v)
               /\ parse = "openapi" => Range(v) = Range(FindAll(e.path, 1))

(* C9: parse_postman returns one endpoint per request leaf, under the      *)
(* group labelled with the '/'-joined names of the folders above the leaf, *)
(* the endpoints of a group in traversal order, and total is the number of *)
(* leaves and the sum of the groups' lengths.                              *)
C9_OneEndpointPerLeaf ==
    parse = "postman" =>
        LET leaves == Leaves(data["item"], <<>>)
        IN /\ total = Len(leaves)
           /\ total = Len(Endpoints(folder_api_map))
           /\ \A k \in DOMAIN leaves :
                \E g \in DOMAIN folder_api_map :
                    folder_api_map[g][1] = JoinSlash(leaves[k].ancestors)
           /\ \A g, h \in DOMAIN folder_api_map :
                folder_api_map[g][1] = folder_api_map[h][1] => g = h
           /\ \A g \in DOMAIN folder_api_map :
                NamePath(folder_api_map[g][2]) =
                    NamePath(SelectSeq(leaves,
                        LAMBDA l : JoinSlash(l.ancestors) = folder_api_map[g][1]))

(* The parsers abort on nothing but a folder without a name (KeyError,     *)
(* line 51) and an operation with an empty tags list (IndexError,          *)
(* line 65).                                                               *)
RECURSIVE HasUnnamedFolder(_)
HasUnnamedFolder(items) ==
    \E k \in DOMAIN items :
        /\ "request" \notin DOMAIN items[k]
        /\ "item" \in DOMAIN items[k]
        /\ ("name" \notin DOMAIN items[k] \/ HasUnnamedFolder(items[k]["item"]))

HasEmptyTags(paths) ==
    \E p \in DOMAIN paths : \E o \in DOMAIN paths[p][2] :
        /\ "tags" \in DOMAIN paths[p][2][o][2]
        /\ paths[p][2][o][2]["tags"] = <<>>

AbortsOnlyThere ==
    /\ parse = "postman" =>
        /\ (parse_exc = "KeyError") <=> HasUnnamedFolder(data["item"])
        /\ parse_exc \in {"none", "KeyError"}
    /\ parse = "openapi" =>
        /\ (parse_exc = "IndexError") <=> HasEmptyTags(data["paths"])
        /\ parse_exc \in {"none", "IndexError"}

====
